---- MODULE Spec2Model ----
(***************************************************************************)
(* Model of package git (src/git.go): a facade over the git command line.  *)
(* Every exported function is one atomic action: it draws what the git     *)
(* binary answers (text and error / exit code), runs the function's code   *)
(* on it and records what the function returned and which git commands it  *)
(* issued.  Go strings are sequences of one-character strings, so that     *)
(* strings.Split and the three regular expressions are computed.           *)
(***************************************************************************)
EXTENDS Integers, Sequences, FiniteSets, TLC

VARIABLES pc, op, args, env, gs, ret, cmds

vars == <<pc, op, args, env, gs, ret, cmds>>

\* ------------------------------------------------------------------ bounds

\* Most lines of a `git status --porcelain` report.
MaxLines == 2

\* Most lines of a `git remote -v` listing.
MaxRemoteLines == 2

\* ------------------------------------------------------------- Go strings

NL == "\n"
TAB == "\t"

\* Go's nil error.
Nil == "nil"

\* The empty Go string.
Empty == <<>>

RECURSIVE Join(_)
\* strings.Join(lines, "\n"), the text a list of lines stands for.
Join(lines) ==
    IF Len(lines) = 0 THEN Empty
    ELSE IF Len(lines) = 1 THEN lines[1]
    ELSE lines[1] \o <<NL>> \o Join(Tail(lines))

\* Index of the first newline of s, 0 when there is none.
IndexNL(s) ==
    IF \E i \in 1..Len(s) : s[i] = NL
    THEN CHOOSE i \in 1..Len(s) : s[i] = NL /\ \A j \in 1..(i - 1) : s[j] # NL
    ELSE 0

RECURSIVE Split(_)
\* strings.Split(s, "\n"): always at least one element, the last one is what
\* follows the last newline (empty when s ends with a newline).
Split(s) ==
    LET i == IndexNL(s)
    IN  IF i = 0 THEN <<s>>
        ELSE <<SubSeq(s, 1, i - 1)>> \o Split(SubSeq(s, i + 1, Len(s)))

\* `.` of Go's regexp: any character but a newline.
NoNewline(s) == \A i \in 1..Len(s) : s[i] # NL

\* -------------------------------------------------- the regular expressions

\* A nil []string, what FindStringSubmatch returns when there is no match.
NoMatch == <<>>

\* v[i] of a Go slice (0-based).
At(v, i) == v[i + 1]

\* regexp "^([ADM])  (.*)$": FindStringSubmatch(line) = [whole, kind, path].
ReadyRE(line) ==
    IF /\ Len(line) >= 3
       /\ line[1] \in {"A", "D", "M"}
       /\ line[2] = " "
       /\ line[3] = " "
       /\ NoNewline(line)
    THEN <<line, <<line[1]>>, SubSeq(line, 4, Len(line))>>
    ELSE NoMatch

\* regexp "^ ([?ADM]) (.*)$": FindStringSubmatch(line) = [whole, kind, path].
NotReadyRE(line) ==
    IF /\ Len(line) >= 3
       /\ line[1] = " "
       /\ line[2] \in {"?", "A", "D", "M"}
       /\ line[3] = " "
       /\ NoNewline(line)
    THEN <<line, <<line[2]>>, SubSeq(line, 4, Len(line))>>
    ELSE NoMatch

\* \w of Go's regexp: [0-9A-Za-z_].
WordChars ==
    {"0", "1", "2", "3", "4", "5", "6", "7", "8", "9", "_",
     "a", "b", "c", "d", "e", "f", "g", "h", "i", "j", "k", "l", "m",
     "n", "o", "p", "q", "r", "s", "t", "u", "v", "w", "x", "y", "z",
     "A", "B", "C", "D", "E", "F", "G", "H", "I", "J", "K", "L", "M",
     "N", "O", "P", "Q", "R", "S", "T", "U", "V", "W", "X", "Y", "Z"}

FetchSuffix == <<" ", "(", "f", "e", "t", "c", "h", ")">>
PushSuffix == <<" ", "(", "p", "u", "s", "h", ")">>

HasSuffix(s, suf) ==
    Len(s) >= Len(suf) /\ SubSeq(s, Len(s) - Len(suf) + 1, Len(s)) = suf

\* Length of the longest run of characters of set cs that starts at s[from].
Run(s, from, cs) ==
    LET ends == {j \in (from - 1)..Len(s) : \A k \in from..j : s[k] \in cs}
    IN  (CHOOSE j \in ends : \A k \in ends : k <= j) - from + 1

\* regexp `^ *(\w+) *(.*) \((fetch|push)\)$`:
\* FindStringSubmatch(line) = [whole, name, url, direction].  The line ends
\* with " (fetch)" or " (push)"; of what precedes, ` *`, `\w+` and ` *` each
\* take the longest run they can (greedy, and `.*` accepts whatever is left).
remMatch(line) ==
    LET suf  == IF HasSuffix(line, FetchSuffix) THEN FetchSuffix
                ELSE IF HasSuffix(line, PushSuffix) THEN PushSuffix
                ELSE Empty
        body == SubSeq(line, 1, Len(line) - Len(suf))
        lead == Run(body, 1, {" "})
        wlen == Run(body, lead + 1, WordChars)
        gap  == Run(body, lead + wlen + 1, {" "})
    IN  IF suf # Empty /\ wlen >= 1 /\ NoNewline(line)
        THEN <<line,
               SubSeq(body, lead + 1, lead + wlen),
               SubSeq(body, lead + wlen + gap + 1, Len(body)),
               SubSeq(suf, 3, Len(suf) - 1)>>
        ELSE NoMatch

\* ------------------------------------------------- Status and its records

\* The kind codes of a record: added, deleted, modified, untracked.
Kinds == {"A", "D", "M", "?"}

\* GitFilesStatus.init(untracked): a record with an empty list under each
\* kind it holds; the untracked kind only when asked for.
init(untracked) ==
    [k \in (IF untracked THEN Kinds ELSE Kinds \ {"?"}) |-> <<>>]

\* GitFilesStatus.add(t, file): appends file to the list of kind t (a Go map
\* of slices: appending under an absent key creates it).
add(gfs, t, file) ==
    IF t \in DOMAIN gfs
    THEN [gfs EXCEPT ![t] = Append(@, file)]
    ELSE gfs @@ (t :> <<file>>)

RECURSIVE SumLen(_, _)
SumLen(gfs, ks) ==
    IF ks = {} THEN 0
    ELSE LET k == CHOOSE x \in ks : TRUE
         IN  Len(gfs[k]) + SumLen(gfs, ks \ {k})

\* GitFilesStatus.CountTracked(): the entries of every kind but untracked.
CountTracked(gfs) == SumLen(gfs, DOMAIN gfs \ {"?"})

\* new(Status) with both records made and initialised (lines 25-30).
NewStatus == [Ready |-> init(FALSE), NotReady |-> init(TRUE), Err |-> Nil]

\* ------------------------------------------------------------- GetStatus

\* ClassifyLine with the two records taken one for the other: a staged
\* line is added to NotReady.
ClassifyLine_StagedToNotReady(st, line) ==
    LET m1 == ReadyRE(line)
        s1 == IF m1 # NoMatch
              THEN [st EXCEPT !.NotReady = add(@, At(m1, 1)[1], At(m1, 2))]
              ELSE st
        m2 == NotReadyRE(line)
    IN  IF m2 # NoMatch
        THEN [s1 EXCEPT !.Ready = add(@, At(m2, 1)[1], At(m2, 2))]
        ELSE s1

\* One turn of the loop of GetStatus (lines 45-50) on status st.
ClassifyLine(st, line) ==
    LET m1 == ReadyRE(line)
        s1 == IF m1 # NoMatch
              THEN [st EXCEPT !.Ready = add(@, At(m1, 1)[1], At(m1, 2))]
              ELSE st
        m2 == NotReadyRE(line)
    IN  IF m2 # NoMatch
        THEN [s1 EXCEPT !.Ready = add(@, At(m2, 1)[1], At(m2, 2))]
        ELSE s1

RECURSIVE ClassifyLines_StopsAtUnmatched(_, _)
\* ClassifyLines leaving the loop at the first line neither pattern takes.
ClassifyLines_StopsAtUnmatched(st, lines) ==
    IF lines = <<>> THEN st
    ELSE IF ReadyRE(lines[1]) = NoMatch /\ NotReadyRE(lines[1]) = NoMatch
    THEN st
    ELSE ClassifyLines_StopsAtUnmatched(ClassifyLine(st, lines[1]), Tail(lines))

RECURSIVE ClassifyLines(_, _)
\* for _, line := range lines (lines 44-51).
ClassifyLines(st, lines) ==
    IF lines = <<>> THEN st
    ELSE ClassifyLines(ClassifyLine(st, lines[1]), Tail(lines))

\* GetStatusOf without the early return of line 38 on a failed command: it
\* parses what the command printed before failing.
GetStatusOf_ParsesOnError(out, err) ==
    LET st == [NewStatus EXCEPT !.Err = err]
    IN  IF out = Empty THEN st
        ELSE ClassifyLines(st, Split(out))

\* GetStatus given what Get("status", "--porcelain") answered.
GetStatusOf(out, err) ==
    LET st == [NewStatus EXCEPT !.Err = err]
    IN  IF err # Nil \/ out = Empty THEN st
        ELSE ClassifyLines(st, Split(out))

\* ---------------------------------------------------------------- Commit

Get(a) == [via |-> "Get", argv |-> a]
Do(a) == [via |-> "Do", argv |-> a]

NothingToCommit == "No files to commit. Please check"
UnableToCommit == "Unable to commit"

\* CommitOf whose gate only acts for a strict caller: a lenient one gets
\* `git commit` run on an empty index.
CommitOf_GateOnlyWhenStrict(st, msg, errorIfEmpty, exit) ==
    IF CountTracked(st.Ready) = 0 /\ errorIfEmpty
    THEN [err |-> NothingToCommit, cmds |-> <<>>]
    ELSE [err |-> IF exit > 0 THEN UnableToCommit ELSE Nil,
          cmds |-> <<Do(<<"commit", "-m", msg>>)>>]

\* Commit(msg, errorIfEmpty) on snapshot st, the commit command exiting with
\* code exit if it is run: the error returned and the commands issued
\* after the status query.
CommitOf(st, msg, errorIfEmpty, exit) ==
    IF CountTracked(st.Ready) = 0
    THEN [err |-> IF errorIfEmpty THEN NothingToCommit ELSE Nil, cmds |-> <<>>]
    ELSE [err |-> IF exit > 0 THEN UnableToCommit ELSE Nil,
          cmds |-> <<Do(<<"commit", "-m", msg>>)>>]

\* ---------------------------------------------------------- RemoteStatus

\* Compare with the merge-base tests made before the equality test.
Compare_BaseFirst(local_rev, remote_rev, base_rev) ==
    IF local_rev = base_rev THEN "-1"
    ELSE IF remote_rev = base_rev THEN "+1"
    ELSE IF local_rev = remote_rev THEN "="
    ELSE "-1+1"

\* The comparisons of lines 164-173.
Compare(local_rev, remote_rev, base_rev) ==
    IF local_rev = remote_rev THEN "="
    ELSE IF local_rev = base_rev THEN "-1"
    ELSE IF remote_rev = base_rev THEN "+1"
    ELSE "-1+1"

\* RemoteStatusOf that does not test the error of the merge-base lookup and
\* classifies with whatever it printed.
RemoteStatusOf_IgnoresBaseError(remote, l, r, b) ==
    LET c1 == Get(<<"rev-parse", "@{0}">>)
        c2 == Get(<<"rev-parse", remote>>)
        c3 == Get(<<"merge-base", "@{0}", remote>>)
    IN  IF l.err # Nil THEN [res |-> "", err |-> l.err, cmds |-> <<c1>>]
        ELSE IF r.err # Nil THEN [res |-> "", err |-> r.err, cmds |-> <<c1, c2>>]
        ELSE [res |-> Compare(l.out, r.out, b.out), err |-> Nil,
              cmds |-> <<c1, c2, c3>>]

\* RemoteStatus(remote), the three lookups answering l, r and b (each an
\* [out, err] pair): what it returns and the lookups it made.
RemoteStatusOf(remote, l, r, b) ==
    LET c1 == Get(<<"rev-parse", "@{0}">>)
        c2 == Get(<<"rev-parse", remote>>)
        c3 == Get(<<"merge-base", "@{0}", remote>>)
    IN  IF l.err # Nil THEN [res |-> "", err |-> l.err, cmds |-> <<c1>>]
        ELSE IF r.err # Nil THEN [res |-> "", err |-> r.err, cmds |-> <<c1, c2>>]
        ELSE IF b.err # Nil THEN [res |-> "", err |-> b.err, cmds |-> <<c1, c2, c3>>]
        ELSE [res |-> Compare(l.out, r.out, b.out), err |-> Nil,
              cmds |-> <<c1, c2, c3>>]

\* ------------------------------------------------------------- RemoteUrl

RECURSIVE ScanRemotes(_, _)
\* The loop of lines 206-210.  Indexing the nil slice of a line that does
\* not match is a run-time panic.
ScanRemotes(remotes, remote) ==
    IF remotes = <<>>
    THEN [url |-> Empty, found |-> FALSE, err |-> Nil, panic |-> FALSE]
    ELSE LET v == remMatch(remotes[1])
         IN  IF v = NoMatch
             THEN [url |-> Empty, found |-> FALSE, err |-> Nil, panic |-> TRUE]
             ELSE IF At(v, 0) = remote
             THEN [url |-> At(v, 1), found |-> TRUE, err |-> Nil, panic |-> FALSE]
             ELSE ScanRemotes(Tail(remotes), remote)

\* RemoteUrl(remote) given what Get("remote", "-v") answered.
RemoteUrlOf(remote, out, err) ==
    IF err # Nil
    THEN [url |-> Empty, found |-> FALSE, err |-> err, panic |-> FALSE]
    ELSE ScanRemotes(IF out = Empty THEN <<>> ELSE Split(out), remote)

\* -------------------------------------------------------- EnsureRemoteIs

\* EnsureRemoteIs(name, url) given the outcome u of RemoteUrl(name): the
\* error returned and the commands issued after the lookup.
EnsureRemoteIsOf(u, name, url) ==
    IF u.panic THEN [err |-> Nil, panic |-> TRUE, cmds |-> <<>>]
    ELSE IF u.err # Nil THEN [err |-> u.err, panic |-> FALSE, cmds |-> <<>>]
    ELSE IF u.found
    THEN [err |-> Nil, panic |-> FALSE,
          cmds |-> IF u.url # url THEN <<Do(<<"remote", "set-url", url>>)>>
                   ELSE <<>>]
    ELSE [err |-> Nil, panic |-> FALSE,
          cmds |-> <<Do(<<"remote", "add", name, url>>)>>]

\* ------------------------------------------------- what git may answer

\* The first three characters of a report line: staged kinds, unstaged
\* kinds, and two that git prints and neither pattern takes.
StatusHeads ==
    {<<"A", " ", " ">>, <<"D", " ", " ">>, <<"M", " ", " ">>,
     <<" ", "?", " ">>, <<" ", "A", " ">>, <<" ", "D", " ">>,
     <<" ", "M", " ">>, <<"?", "?", " ">>, <<"M", "M", " ">>}

Paths == {<<"f">>, <<"g">>}

StatusLines ==
    {h \o p : h \in StatusHeads, p \in Paths} \cup {Empty, <<"M", " ", "f">>}

\* The non-empty sequences of at most n elements of S.
SeqsUpTo(S, n) == UNION {[1..k -> S] : k \in 1..n}

\* The reports: up to MaxLines lines, the last one empty when the report
\* ends with a newline.
StatusTexts == {Join(ls) : ls \in SeqsUpTo(StatusLines, MaxLines)}

\* An error of exec.Cmd.Output.
ExitError == "exit status 128"

Errors == {Nil, ExitError}

ExitCodes == {0, 1, 128}

Messages == {"msg"}

Revs == {"r1", "r2", "r3"}

Refs == {"origin/master"}

RemoteNames == {<<"o">>, <<"p">>, <<"o", " ", "u">> \o FetchSuffix}

Urls == {<<"u">>, <<"w">>}

RemoteLines ==
    {<<"o", " ", "u">> \o FetchSuffix, <<"o", " ", "u">> \o PushSuffix,
     <<"o", TAB, "u">> \o FetchSuffix, <<"p", " ", "w">> \o FetchSuffix,
     <<"o", " ", "u">>, Empty}

RemoteTexts == {Join(ls) : ls \in SeqsUpTo(RemoteLines, MaxRemoteLines)}

\* ---------------------------------------------------------------- actions

NoArgs == [none |-> TRUE]

Init ==
    /\ pc = "idle"
    /\ op = "none"
    /\ args = NoArgs
    /\ env = NoArgs
    /\ gs = NewStatus
    /\ ret = NoArgs
    /\ cmds = <<>>

\* func GetStatus() (gs *Status)
GetStatus ==
    /\ pc = "idle"
    /\ \E out \in StatusTexts, err \in Errors :
          /\ env' = [out |-> out, err |-> err]
          /\ gs' = GetStatusOf(out, err)
    /\ pc' = "done"
    /\ op' = "GetStatus"
    /\ args' = NoArgs
    /\ ret' = NoArgs
    /\ cmds' = <<Get(<<"status", "--porcelain">>)>>

\* func Commit(msg string, errorIfEmpty bool) (err error)
Commit ==
    /\ pc = "idle"
    /\ \E out \in StatusTexts, err \in Errors, exit \in ExitCodes,
          msg \in Messages, errorIfEmpty \in BOOLEAN :
          LET st == GetStatusOf(out, err)
              c  == CommitOf(st, msg, errorIfEmpty, exit)
          IN  /\ env' = [out |-> out, err |-> err, exit |-> exit]
              /\ args' = [msg |-> msg, errorIfEmpty |-> errorIfEmpty]
              /\ gs' = st
              /\ ret' = [err |-> c.err]
              /\ cmds' = <<Get(<<"status", "--porcelain">>)>> \o c.cmds
    /\ pc' = "done"
    /\ op' = "Commit"

\* func RemoteStatus(remote string) (string, error)
RemoteStatus ==
    /\ pc = "idle"
    /\ \E remote \in Refs,
          l \in [out : Revs, err : {Nil, "local: exit status 128"}],
          r \in [out : Revs, err : {Nil, "remote: exit status 128"}],
          b \in [out : Revs, err : {Nil, "base: exit status 1"}] :
          LET c == RemoteStatusOf(remote, l, r, b)
          IN  /\ env' = [local |-> l, remote |-> r, base |-> b]
              /\ args' = [remote |-> remote]
              /\ ret' = [res |-> c.res, err |-> c.err]
              /\ cmds' = c.cmds
    /\ pc' = "done"
    /\ op' = "RemoteStatus"
    /\ gs' = NewStatus

\* func RemoteUrl(remote string) (string, bool, error)
RemoteUrl ==
    /\ pc = "idle"
    /\ \E remote \in RemoteNames, out \in RemoteTexts, err \in Errors :
          LET u == RemoteUrlOf(remote, out, err)
          IN  /\ env' = [out |-> out, err |-> err]
              /\ args' = [remote |-> remote]
              /\ ret' = [url |-> u.url, found |-> u.found, err |-> u.err]
              /\ pc' = IF u.panic THEN "panic" ELSE "done"
    /\ op' = "RemoteUrl"
    /\ gs' = NewStatus
    /\ cmds' = <<Get(<<"remote", "-v">>)>>

\* func EnsureRemoteIs(name, url string) error
EnsureRemoteIs ==
    /\ pc = "idle"
    /\ \E name \in RemoteNames, url \in Urls, out \in RemoteTexts,
          err \in Errors :
          LET u == RemoteUrlOf(name, out, err)
              e == EnsureRemoteIsOf(u, name, url)
          IN  /\ env' = [out |-> out, err |-> err]
              /\ args' = [name |-> name, url |-> url]
              /\ ret' = [err |-> e.err]
              /\ cmds' = <<Get(<<"remote", "-v">>)>> \o e.cmds
              /\ pc' = IF e.panic THEN "panic" ELSE "done"
    /\ op' = "EnsureRemoteIs"
    /\ gs' = NewStatus

\* The caller takes the result (or the process is restarted after a panic)
\* and is free to make its next call.
Return ==
    /\ pc \in {"done", "panic"}
    /\ pc' = "idle"
    /\ op' = "none"
    /\ args' = NoArgs
    /\ env' = NoArgs
    /\ gs' = NewStatus
    /\ ret' = NoArgs
    /\ cmds' = <<>>

Next ==
    \/ GetStatus
    \/ Commit
    \/ RemoteStatus
    \/ RemoteUrl
    \/ EnsureRemoteIs
    \/ Return

Spec == Init /\ [][Next]_vars

\* ------------------------------------------------ vocabulary of the claims

Range(q) == {q[i] : i \in 1..Len(q)}

\* The list a record holds under kind k (a Go map: nothing under an absent
\* key).
ListOf(gfs, k) == IF k \in DOMAIN gfs THEN gfs[k] ELSE <<>>

\* Every path a record holds, under any kind.
PathsOf(gfs) == UNION {Range(gfs[k]) : k \in DOMAIN gfs}

\* The lines of text s as <<first, last>> positions: the maximal stretches
\* without a newline.
LineSpans(s) ==
    {sp \in (1..(Len(s) + 1)) \X (0..Len(s)) :
        /\ sp[2] >= sp[1] - 1
        /\ sp[1] = 1 \/ s[sp[1] - 1] = NL
        /\ sp[2] = Len(s) \/ s[sp[2] + 1] = NL
        /\ \A k \in sp[1]..sp[2] : s[k] # NL}

\* The lines of text s, in the order they appear.
LinesOf(s) ==
    LET spans == LineSpans(s)
        n     == Cardinality(spans)
        order == CHOOSE f \in [1..n -> spans] :
                     \A a, b \in 1..n : a < b => f[a][1] < f[b][1]
    IN  [a \in 1..n |-> SubSeq(s, order[a][1], order[a][2])]

\* A letter of {A, D, M}, two spaces, a path.
ReadyForm(l) ==
    Len(l) >= 3 /\ l[1] \in {"A", "D", "M"} /\ l[2] = " " /\ l[3] = " "

\* One space, a character of {?, A, D, M}, one space, a path.
NotReadyForm(l) ==
    Len(l) >= 3 /\ l[1] = " " /\ l[2] \in Kinds /\ l[3] = " "

FormKind(l) == IF ReadyForm(l) THEN l[1] ELSE l[2]

FormPath(l) == SubSeq(l, 4, Len(l))

\* A status query that returned a parsed report.
Parsed ==
    /\ pc = "done"
    /\ op \in {"GetStatus", "Commit"}
    /\ env.err = Nil
    /\ env.out # Empty

\* C1: every line of the not-ready form has its path under its kind in the
\* NotReady record, and in no list of the Ready record.
C1_NotReadyOnly ==
    Parsed =>
        \A l \in Range(LinesOf(env.out)) :
            NotReadyForm(l) =>
                /\ FormPath(l) \in Range(ListOf(gs.NotReady, FormKind(l)))
                /\ FormPath(l) \notin PathsOf(gs.Ready)

\* C2: every line of the ready form has its path under its kind in the
\* Ready record, and in no list of the NotReady record.
C2_ReadyOnly ==
    Parsed =>
        \A l \in Range(LinesOf(env.out)) :
            ReadyForm(l) =>
                /\ FormPath(l) \in Range(ListOf(gs.Ready, FormKind(l)))
                /\ FormPath(l) \notin PathsOf(gs.NotReady)

\* A report with a staged and an unstaged line has been classified.
C2_Witness ==
    /\ Parsed
    /\ op = "GetStatus"
    /\ \E l \in Range(LinesOf(env.out)) :
          ReadyForm(l) /\ FormPath(l) \in Range(gs.Ready[FormKind(l)])
    /\ \E l \in Range(LinesOf(env.out)) : NotReadyForm(l)

Codes == {"=", "-1", "+1", "-1+1"}

AllLookupsOk ==
    /\ pc = "done"
    /\ op = "RemoteStatus"
    /\ env.local.err = Nil
    /\ env.remote.err = Nil
    /\ env.base.err = Nil

\* C3: with the three lookups successful, RemoteStatus returns "=" when
\* local = remote, else "-1" when local = base, else "+1" when remote =
\* base, else "-1+1"; always one of the four codes, with a nil error.
C3_FirstMatchWins ==
    AllLookupsOk =>
        LET l == env.local.out
            r == env.remote.out
            b == env.base.out
        IN  /\ ret.err = Nil
            /\ ret.res \in Codes
            /\ l = r => ret.res = "="
            /\ l # r /\ l = b => ret.res = "-1"
            /\ l # r /\ l # b /\ r = b => ret.res = "+1"
            /\ l # r /\ l # b /\ r # b => ret.res = "-1+1"

\* The three revisions are the same one: every test of the chain would
\* match, and the first decided.
C3_Witness ==
    /\ AllLookupsOk
    /\ env.local.out = env.remote.out
    /\ env.local.out = env.base.out
    /\ ret.res = "="

\* The lookups in the order RemoteStatus makes them.
LookupOrder == <<"local", "remote", "base">>

\* C4: when a lookup fails, RemoteStatus returns the error of the first
\* failing lookup with an empty result, never a code, and makes no lookup
\* after the failing one.
C4_LookupFailure ==
    (pc = "done" /\ op = "RemoteStatus"
        /\ \E i \in 1..3 : env[LookupOrder[i]].err # Nil) =>
        LET first == CHOOSE i \in 1..3 :
                        /\ env[LookupOrder[i]].err # Nil
                        /\ \A j \in 1..(i - 1) : env[LookupOrder[j]].err = Nil
        IN  /\ ret.err = env[LookupOrder[first]].err
            /\ ret.err # Nil
            /\ ret.res = ""
            /\ ret.res \notin Codes
            /\ Len(cmds) = first
            /\ \A c \in Range(cmds) : c.via = "Get"

\* The remote ref does not resolve, and the merge-base would have failed
\* too: the error is the remote lookup's and merge-base was never run.
C4_Witness ==
    /\ pc = "done"
    /\ op = "RemoteStatus"
    /\ env.local.err = Nil
    /\ env.remote.err # Nil
    /\ env.base.err # Nil
    /\ ret.err = env.remote.err
    /\ Len(cmds) = 2

\* The entries of a record that are not untracked.
TrackedEntries(gfs) ==
    UNION {{k} \X (1..Len(gfs[k])) : k \in DOMAIN gfs \ {"?"}}

\* The `git commit` invocations among the commands issued.
CommitRuns == {i \in 1..Len(cmds) : cmds[i].via = "Do" /\ cmds[i].argv[1] = "commit"}

\* C5: with no tracked entry in the snapshot's Ready record Commit never
\* runs `git commit` and returns the "nothing to commit" error exactly when
\* errorIfEmpty; otherwise it runs it once and fails iff its exit code > 0.
C5_CommitGate ==
    (pc = "done" /\ op = "Commit") =>
        IF TrackedEntries(gs.Ready) = {}
        THEN /\ CommitRuns = {}
             /\ args.errorIfEmpty => ret.err = NothingToCommit
             /\ ~args.errorIfEmpty => ret.err = Nil
        ELSE /\ Cardinality(CommitRuns) = 1
             /\ ret.err # Nil <=> env.exit > 0

\* A report with lines but nothing tracked for the Ready record, strict
\* caller: the gate refuses.
C5_Witness ==
    /\ pc = "done"
    /\ op = "Commit"
    /\ Parsed
    /\ TrackedEntries(gs.Ready) = {}
    /\ args.errorIfEmpty
    /\ env.exit = 0
    /\ ret.err = NothingToCommit
    /\ CommitRuns = {}

\* C6: when the status command fails or prints nothing, both records of
\* the snapshot hold no path and Err is the command's error.
C6_EmptyOnFailure ==
    (pc = "done" /\ op = "GetStatus" /\ (env.err # Nil \/ env.out = Empty)) =>
        /\ PathsOf(gs.Ready) = {}
        /\ PathsOf(gs.NotReady) = {}
        /\ gs.Err = env.err

\* The command failed after printing a staged line: nothing of it is in
\* the snapshot.
C6_Witness ==
    /\ pc = "done"
    /\ op = "GetStatus"
    /\ env.err # Nil
    /\ \E l \in Range(LinesOf(env.out)) : ReadyForm(l)
    /\ PathsOf(gs.Ready) = {}
    /\ gs.Err = env.err

\* C7: the Ready record holds paths only under A, D, M; the NotReady
\* record only under A, D, M, ?.
C7_KindsOfRecords ==
    (pc = "done" /\ op \in {"GetStatus", "Commit"}) =>
        /\ \A k \in DOMAIN gs.Ready : gs.Ready[k] # <<>> => k \in {"A", "D", "M"}
        /\ \A k \in DOMAIN gs.NotReady : gs.NotReady[k] # <<>> => k \in Kinds

\* The paths of the lines of ls at the positions of set S, in line order.
PathsAt(ls, S) ==
    [i \in 1..Cardinality(S) |->
        FormPath(ls[CHOOSE a \in S : Cardinality({b \in S : b < a}) = i - 1])]

\* C9: a line of either form adds exactly one entry, to one record, under
\* its kind; any other line adds none and does not end the classification;
\* within a kind the entries are in the order of their lines.  (For each
\* kind, the lists of the two records are a split, order kept, of the paths
\* of the lines of that kind.)
C9_OneEntryPerLine ==
    Parsed =>
        LET ls == LinesOf(env.out)
        IN  \A k \in Kinds \cup DOMAIN gs.Ready \cup DOMAIN gs.NotReady :
                LET P == {a \in 1..Len(ls) :
                             /\ ReadyForm(ls[a]) \/ NotReadyForm(ls[a])
                             /\ FormKind(ls[a]) = k}
                IN  \E S \in SUBSET P :
                        /\ ListOf(gs.Ready, k) = PathsAt(ls, S)
                        /\ ListOf(gs.NotReady, k) = PathsAt(ls, P \ S)

\* A line of neither form comes first, a line that is classified follows.
C9_Witness ==
    /\ Parsed
    /\ op = "GetStatus"
    /\ LET ls == LinesOf(env.out)
       IN  /\ Len(ls) = 2
           /\ ~ReadyForm(ls[1]) /\ ~NotReadyForm(ls[1])
           /\ ls[1] # Empty
           /\ ReadyForm(ls[2])
           /\ gs.Ready[FormKind(ls[2])] = <<FormPath(ls[2])>>

\* The URL fields of the listing lines whose name field is name.
UrlsOf(text, name) ==
    {At(remMatch(l), 2) : l \in {x \in Range(LinesOf(text)) :
                                    /\ remMatch(x) # NoMatch
                                    /\ At(remMatch(x), 1) = name}}

\* C8: on any listing `git remote -v` returns successfully RemoteUrl does
\* not crash; it returns (url, true, nil) with the URL field of a line
\* whose name field is the name asked for when there is one, and
\* ("", false, nil) otherwise.
C8_RemoteUrl ==
    (op = "RemoteUrl" /\ env.err = Nil) =>
        LET urls == IF env.out = Empty THEN {} ELSE UrlsOf(env.out, args.remote)
        IN  /\ pc = "done"
            /\ ret.err = Nil
            /\ ret.found <=> urls # {}
            /\ ret.found => ret.url \in urls
            /\ ~ret.found => ret.url = Empty

\* What EnsureRemoteIs issued after its lookup.
Issued == SubSeq(cmds, 2, Len(cmds))

\* C10: EnsureRemoteIs returning nil after a successful lookup has issued
\* one `remote add name url` when name was not registered, one `remote
\* set-url` carrying name and url when it was registered with another URL,
\* and nothing when it was registered with url; a failed lookup returns
\* its error and issues nothing.
C10_EnsureRemoteIs ==
    (pc = "done" /\ op = "EnsureRemoteIs") =>
        IF env.err # Nil
        THEN ret.err = env.err /\ Issued = <<>>
        ELSE ret.err = Nil =>
            LET urls == IF env.out = Empty THEN {} ELSE UrlsOf(env.out, args.name)
            IN  /\ urls = {} =>
                    Issued = <<Do(<<"remote", "add", args.name, args.url>>)>>
                /\ (urls # {} /\ args.url \notin urls) =>
                    /\ Len(Issued) = 1
                    /\ Issued[1].via = "Do"
                    /\ Issued[1].argv = <<"remote", "set-url", args.name, args.url>>
                /\ urls = {args.url} => Issued = <<>>

====
